---- MODULE Spec2Model ----
(***************************************************************************)
(* The instance-pricing pipeline of the AWS tools extension:               *)
(*   - the Cache Store         (src/src/shared/utils.ts)                   *)
(*   - the Catalog Client      (fetchInstanceData, awsClient.ts)           *)
(*   - the Fetch Orchestrator  (useAWSInstanceData, src/src/shared/hooks.ts)*)
(*   - the Service Config Registry (src/src/search-instance-price.tsx)     *)
(* A session is one run of the effect's fetchData closure.  JavaScript is  *)
(* single threaded: a step of the model is the code that runs between two  *)
(* awaits of host operations (LocalStorage.getItem, one catalog page,      *)
(* LocalStorage.setItem) or one React event (mount, dependency change,     *)
(* unmount).                                                               *)
(***************************************************************************)
EXTENDS Integers, Sequences, FiniteSets, TLC

VARIABLES
  mounted,            \* the component using the hook is mounted
  region,             \* hook argument region
  selection,          \* the view's selectedService (a key of SERVICE_CONFIGS)
  refreshKey,         \* the details view's refreshKey dependency
  nSessions,          \* number of effect runs so far (session ids 1..nSessions)
  instanceData,       \* useState: instanceData
  instanceDataOf,     \* the session whose setInstanceData call was the last (0: initial {})
  error,              \* useState: error
  isLoading,          \* useState: isLoading
  loadingStatus,      \* useState: loadingStatus
  fetchProgress,      \* useState: fetchProgress
  abortControllerRef, \* useRef: 0 is null, s is the AbortController made by session s
  aborted,            \* the AbortControllers whose abort() was called
  storage,            \* LocalStorage: key -> stored content
  sess,               \* per session: closure variables, position and history
  cacheCall,          \* the last direct call of the Cache Store and its outcome
  lastWrite,          \* per key: the last write LocalStorage performed
  client,             \* a direct call of fetchInstanceData: its locals, input and outcome
  enrich,             \* a call of the batched fetchBaselineBandwidth and the calls before it
  bandwidthStore,     \* LocalStorage content under BASELINE_BANDWIDTH_CACHE_KEY
  details,            \* the details view: instanceType and useBaselineBandwidth's state
  typeView,           \* the details view: selectedService, instanceType and the names looked up
  compare             \* the Command view: compareSet and showCompare

vars == << mounted, region, selection, refreshKey, nSessions, instanceData,
           instanceDataOf, error, isLoading, loadingStatus, fetchProgress,
           abortControllerRef, aborted, storage, sess, cacheCall, lastWrite,
           client, enrich, bandwidthStore, details, typeView, compare >>

\* The variables of the hook's component, and those of direct Cache Store calls.
hookVars == << mounted, region, selection, refreshKey, nSessions, instanceData,
               instanceDataOf, error, isLoading, loadingStatus, fetchProgress,
               abortControllerRef, aborted, sess >>
cacheVars == << cacheCall, lastWrite >>
\* The variables of a direct Catalog Client call, of the capability
\* enrichment and of the details view.
clientVars == << client >>
enrichVars == << enrich, bandwidthStore >>
detailVars == << details >>
\* The local state of the views.
viewVars == << typeView, compare >>
\* What the Fetch Orchestrator never touches.
standaloneVars == << cacheVars, clientVars, enrichVars, detailVars, viewVars >>

---------------------------------------------------------------------------
(* Bounds of the model *)
MaxSessions == 2      \* effect runs in one behaviour
MaxPages == 2         \* pages of one paginated catalog response
MaxPageLen == 1       \* price items of one page

Sessions == 1..MaxSessions

Regions == {"us-east-1", "eu-west-1"}

null == "null"

---------------------------------------------------------------------------
(* Service Config Registry *)

ServiceCode ==
  [EC2 |-> "AmazonEC2", RDS |-> "AmazonRDS", ElastiCache |-> "AmazonElastiCache"]

\* ServiceCode.<name> as JavaScript evaluates it: a name that is no member of
\* the enum is undefined.
undefined == "undefined"
ServiceCodeMember(name) ==
  IF name \in DOMAIN ServiceCode THEN ServiceCode[name] ELSE undefined

Filter(field, value) == [Type |-> "TERM_MATCH", Field |-> field, Value |-> value]

RdsFilters(engine) ==
  << Filter("databaseEngine", engine), Filter("deploymentOption", "Single-AZ") >>

SERVICE_CONFIGS ==
  [ s \in { "EC2", "Elasticache (Redis)", "RDS (Aurora MySQL)",
            "RDS (Aurora PostgreSQL)", "RDS (MySQL)", "RDS (PostgreSQL)",
            "RDS (MariaDB)", "RDS (Oracle)", "RDS (SQL Server)" } |->
    CASE s = "EC2" ->
           [ serviceCode |-> ServiceCode.EC2, cacheKey |-> "ec2_instance_data",
             additionalFilters |->
               << Filter("operatingSystem", "Linux"), Filter("tenancy", "Shared"),
                  Filter("capacitystatus", "Used"), Filter("preInstalledSw", "NA") >> ]
      [] s = "Elasticache (Redis)" ->
           [ serviceCode |-> ServiceCodeMember("ELASTICACHE"),
             cacheKey |-> "elasticache_redis_instance_data",
             additionalFilters |-> << Filter("cacheEngine", "Redis") >> ]
      [] s = "RDS (Aurora MySQL)" ->
           [ serviceCode |-> ServiceCode.RDS, cacheKey |-> "rds_aurora_mysql_data",
             additionalFilters |-> RdsFilters("Aurora MySQL") ]
      [] s = "RDS (Aurora PostgreSQL)" ->
           [ serviceCode |-> ServiceCode.RDS, cacheKey |-> "rds_aurora_postgresql_data",
             additionalFilters |-> RdsFilters("Aurora PostgreSQL") ]
      [] s = "RDS (MySQL)" ->
           [ serviceCode |-> ServiceCode.RDS, cacheKey |-> "rds_mysql_data",
             additionalFilters |-> RdsFilters("MySQL") ]
      [] s = "RDS (PostgreSQL)" ->
           [ serviceCode |-> ServiceCode.RDS, cacheKey |-> "rds_postgresql_data",
             additionalFilters |-> RdsFilters("PostgreSQL") ]
      [] s = "RDS (MariaDB)" ->
           [ serviceCode |-> ServiceCode.RDS, cacheKey |-> "rds_mariadb_data",
             additionalFilters |-> RdsFilters("MariaDB") ]
      [] s = "RDS (Oracle)" ->
           [ serviceCode |-> ServiceCode.RDS, cacheKey |-> "rds_oracle_data",
             additionalFilters |-> RdsFilters("Oracle") ]
      [] OTHER ->
           [ serviceCode |-> ServiceCode.RDS, cacheKey |-> "rds_sqlserver_data",
             additionalFilters |-> RdsFilters("SQL Server") ] ]

\* The selections the views switch between in the model.
ViewSelections == {"EC2", "RDS (Aurora PostgreSQL)"}

\* Command: useState(props.arguments.service || "EC2"),
\* region = props.arguments.region || defaultRegion (a preference).
DefaultSelection == "EC2"
DefaultRegion == "us-east-1"

\* Command: filters = [...baseFilters, ...serviceConfig.additionalFilters]
FiltersOf(sel, reg) ==
  << Filter("regionCode", reg) >> \o SERVICE_CONFIGS[sel].additionalFilters

\* The cache key without the region (the key of the selection alone).
CacheKeyWithRegion_NoRegion(cacheKey, reg) == cacheKey \o "_" \o "us-east-1"

\* fetchData: cacheKeyWithRegion = `${cacheKey}_${region}`
CacheKeyWithRegion(cacheKey, reg) == cacheKey \o "_" \o reg

KeyOf(sel, reg) == CacheKeyWithRegion(SERVICE_CONFIGS[sel].cacheKey, reg)

Keys == { KeyOf(sel, reg) : sel \in ViewSelections, reg \in Regions }

---------------------------------------------------------------------------
(* Values *)

\* A JavaScript object used as a map: a function from its keys.
EmptyMap == [k \in {} |-> k]

Put(map, k, v) == [x \in (DOMAIN map) \cup {k} |-> IF x = k THEN v ELSE map[x]]

\* pricePerHour: a number (in hundredths of a dollar), NaN, or JSON null.
Num(c) == [kind |-> "number", cents |-> c]
NaN == [kind |-> "NaN", cents |-> 0]
JsonNull == [kind |-> "null", cents |-> 0]

\* parseFloat on the decimal strings of the catalog; any other text is NaN.
parseFloat(str) ==
  CASE str = "0.2600000000" -> Num(26)
    [] str = "0.5200000000" -> Num(52)
    [] str = "0.3100000000" -> Num(31)
    [] str = "0.0000000000" -> Num(0)
    [] OTHER -> NaN

---------------------------------------------------------------------------
(* Cache Store: src/src/shared/utils.ts *)

\* What LocalStorage holds under a key: nothing, or a string.  A string is
\* text that JSON.parse rejects, or the JSON text of a value.
NoEntry == [kind |-> "none"]
Garbage == [kind |-> "text"]
JsonText(value) == [kind |-> "json", value |-> value]

\* JSON values: null, or an object with optional version and data members.
JNull == [t |-> "null", hasVersion |-> FALSE, version |-> 0, hasData |-> FALSE, data |-> EmptyMap]
JObject(hasVersion, version, hasData, data) ==
  [t |-> "object", hasVersion |-> hasVersion, version |-> version,
   hasData |-> hasData, data |-> data]

\* JSON.stringify of a number: NaN is written as null.
StringifyNumber(p) == IF p.kind = "NaN" THEN JsonNull ELSE p

\* JSON.stringify of the instance map.
StringifyData(data) ==
  [k \in DOMAIN data |->
     [data[k] EXCEPT !.pricePerHour = StringifyNumber(data[k].pricePerHour)]]

\* JSON.stringify(data): the payload without its envelope (the earlier
\* setCachedData stored the data alone).
Stringify_NoEnvelope(version, data) ==
  JsonText(JObject(FALSE, 0, TRUE, StringifyData(data)))

\* JSON.stringify({ version, data })
Stringify(version, data) ==
  JsonText(JObject(TRUE, version, TRUE, StringifyData(data)))

\* An outcome of a call: a returned value or a thrown error.  (value is of
\* the callee's result type in both cases; a thrown outcome's value is
\* never read.)
Return(v) == [threw |-> FALSE, value |-> v, name |-> "", message |-> ""]
Throw(v, name, message) == [threw |-> TRUE, value |-> v, name |-> name, message |-> message]

\* JSON.parse(cachedDataString)
JSONparse(content) ==
  IF content.kind = "json" THEN Return(content.value)
  ELSE Throw(JNull, "SyntaxError", "Unexpected token")

\* The result of a read: null (a miss), or the payload.
Miss == [found |-> FALSE, data |-> EmptyMap]
Hit(data) == [found |-> TRUE, data |-> data]

\* ReadEnvelope without the version test (the unversioned getCachedData of
\* the earlier awsClient.ts returned whatever was stored).
ReadEnvelope_IgnoresVersion(parsed, version) ==
  IF parsed.t = "null"
    THEN Throw(Miss, "TypeError", "Cannot read properties of null (reading 'version')")
  ELSE Return(IF parsed.hasData THEN Hit(parsed.data) ELSE Miss)

\* ReadEnvelope comparing the stored number with the version as a string:
\* `===` is then never true.
ReadEnvelope_VersionAsString(parsed, version) ==
  IF parsed.t = "null"
    THEN Throw(Miss, "TypeError", "Cannot read properties of null (reading 'version')")
  ELSE Return(Miss)

\* cachedData.version === version, cachedData.data: throws on null; an
\* object without a data member yields undefined, which the caller's
\* `if (cachedData)` takes as a miss.
ReadEnvelope(parsed, version) ==
  IF parsed.t = "null"
    THEN Throw(Miss, "TypeError", "Cannot read properties of null (reading 'version')")
  ELSE IF parsed.hasVersion /\ parsed.version = version
    THEN Return(IF parsed.hasData THEN Hit(parsed.data) ELSE Miss)
  ELSE Return(Miss)

\* The body of getCachedData's try block.  readOk: LocalStorage.getItem resolved.
GetCachedDataTry(content, version, readOk) ==
  IF ~readOk THEN Throw(Miss, "Error", "storage read failed")
  ELSE IF content.kind = "none" THEN Return(Miss)
  ELSE LET parsed == JSONparse(content) IN
       IF parsed.threw THEN Throw(Miss, parsed.name, parsed.message)
       ELSE ReadEnvelope(parsed.value, version)

\* getCachedData without its try/catch.
getCachedData_NoCatch(content, version, readOk) ==
  GetCachedDataTry(content, version, readOk)

\* A getCachedData that never finds an entry.
getCachedData_AlwaysNull(content, version, readOk) == Return(Miss)

\* getCachedData: catch (error) { console.error } ; return null
getCachedData(content, version, readOk) ==
  LET r == GetCachedDataTry(content, version, readOk) IN
  IF r.threw THEN Return(Miss) ELSE r

\* The body of setCachedData's try block: the content of the key after
\* LocalStorage.setItem(key, JSON.stringify({ version, data })).  writeOk:
\* setItem resolved.
SetCachedDataTry(old, version, data, writeOk) ==
  IF writeOk THEN Return(Stringify(version, data))
  ELSE Throw(old, "Error", "storage write failed")

\* setCachedData keeping an entry that is already stored (first write wins).
setCachedData_KeepsExisting(old, version, data, writeOk) ==
  IF old.kind = "json" THEN Return(old)
  ELSE LET r == SetCachedDataTry(old, version, data, writeOk) IN
       IF r.threw THEN Return(old) ELSE r

\* setCachedData: catch (error) { console.error }
setCachedData(old, version, data, writeOk) ==
  LET r == SetCachedDataTry(old, version, data, writeOk) IN
  IF r.threw THEN Return(old) ELSE r

---------------------------------------------------------------------------
(* Catalog Client: fetchInstanceData, src/unnamed/part_006 *)

\* The value of a filter's field in a TERM_MATCH filter list.
FilterValue(filters, field) ==
  filters[CHOOSE i \in DOMAIN filters : filters[i].Field = field].Value

\* product.attributes of a catalog record returned for a filter list: the
\* catalog returns only records that match every filter.
Attributes(filters, instanceType, usagetype) ==
  [f \in {"instanceType", "usagetype"} \cup {filters[i].Field : i \in DOMAIN filters} |->
     IF f = "instanceType" THEN instanceType
     ELSE IF f = "usagetype" THEN usagetype
     ELSE FilterValue(filters, f)]

\* A raw price item (the parsed JSON of one PriceList entry).  onDemand is
\* terms.OnDemand: a list of terms, each a list of price dimensions, each
\* the pricePerUnit.USD string.  instanceType "" stands for a missing one.
PriceItem(hasAttributes, attributes, hasOnDemand, onDemand) ==
  [hasAttributes |-> hasAttributes, attributes |-> attributes,
   hasOnDemand |-> hasOnDemand, onDemand |-> onDemand]

\* The local variables of fetchInstanceData.
NewFetch == [instanceData |-> EmptyMap, pageCount |-> 0, instanceCount |-> 0]

\* instanceData[instanceType] = { pricePerHour, ...attributes }
InstanceKey(attributes) == attributes["instanceType"]

InstanceRecord(pricePerHour, attributes) ==
  [pricePerHour |-> pricePerHour, attributes |-> attributes]

\* The record loop storing a record without an on-demand term at price 0.
ProcessItem_DefaultsPrice(f, item) ==
  IF ~item.hasAttributes
    THEN Throw(f, "TypeError", "Cannot read properties of undefined (reading 'instanceType')")
  ELSE IF item.attributes["instanceType"] = "" THEN Return(f)
  ELSE Return([f EXCEPT
         !.instanceData = Put(f.instanceData, InstanceKey(item.attributes),
                              InstanceRecord(Num(0), item.attributes)),
         !.instanceCount = f.instanceCount + 1])

\* The body of the record loop for one price item (lines 122-143).
ProcessItem(f, item) ==
  IF ~item.hasAttributes
    THEN Throw(f, "TypeError", "Cannot read properties of undefined (reading 'instanceType')")
  ELSE IF item.attributes["instanceType"] = "" THEN Return(f)
  ELSE IF ~item.hasOnDemand THEN Return(f)
  ELSE IF item.onDemand = << >>
    THEN Throw(f, "TypeError", "Cannot read properties of undefined (reading 'priceDimensions')")
  ELSE IF item.onDemand[1] = << >>
    THEN Throw(f, "TypeError", "Cannot read properties of undefined (reading 'pricePerUnit')")
  ELSE Return([f EXCEPT
         !.instanceData = Put(f.instanceData, InstanceKey(item.attributes),
                              InstanceRecord(parseFloat(item.onDemand[1][1]), item.attributes)),
         !.instanceCount = f.instanceCount + 1])

\* for (const priceItem of page.PriceList): the first throw ends the loop.
RECURSIVE ProcessItems(_, _)
ProcessItems(f, items) ==
  IF items = << >> THEN Return(f)
  ELSE LET r == ProcessItem(f, Head(items)) IN
       IF r.threw THEN r ELSE ProcessItems(r.value, Tail(items))

\* The valid records of a page: those with attributes, an instance type and
\* an on-demand term with a price dimension.
IsValidItem(item) ==
  /\ item.hasAttributes /\ item.attributes["instanceType"] # ""
  /\ item.hasOnDemand /\ item.onDemand # << >> /\ item.onDemand[1] # << >>

ValidItems(page) == { page[i] : i \in { j \in DOMAIN page : IsValidItem(page[j]) } }

\* The error fetchInstanceData throws at a page boundary when signal.aborted:
\* new Error("Fetch aborted").
FetchAborted(f) == Throw(f, "Error", "Fetch aborted")

\* The body of `for await (const page of paginator)` for one page.
PageStep(f, page, signalAborted) ==
  IF signalAborted THEN FetchAborted(f)
  ELSE ProcessItems([f EXCEPT !.pageCount = f.pageCount + 1], page)

\* setProgress?.({ current: pageCount, total: null, ... }) as the hook's callback
\* stores it: { current: progress.current ?? 0, total: progress.total ?? 0 }
Progress(f) == [current |-> f.pageCount, total |-> 0]

\* Errors of the transport (thrown by the paginator, AWS SDK errors).
TransportErrors ==
  { [name |-> "AccessDeniedException", message |-> "not authorized to perform pricing:GetProducts"] }

---------------------------------------------------------------------------
(* The catalog's answers *)

startsWith(str, prefix) ==
  Len(str) >= Len(prefix) /\ SubSeq(str, 1, Len(prefix)) = prefix

getInstancePrefix(service) ==
  IF startsWith(service, "RDS") THEN "db."
  ELSE IF startsWith(service, "Elasticache") THEN "cache."
  ELSE ""

\* The price items the catalog may return for a selection and region: two
\* priced variants of one instance type that differ in usagetype, and an
\* item of another type without an on-demand term.
CatalogItems(sel, reg) ==
  LET fl == FiltersOf(sel, reg)
      large == getInstancePrefix(sel) \o "r6g.large"
      xlarge == getInstancePrefix(sel) \o "r6g.xlarge"
  IN { PriceItem(TRUE, Attributes(fl, large, "InstanceUsage"), TRUE, << << "0.2600000000" >> >>),
       PriceItem(TRUE, Attributes(fl, large, "InstanceUsageIOOptimized"), TRUE, << << "0.3100000000" >> >>),
       PriceItem(TRUE, Attributes(fl, xlarge, "InstanceUsage"), FALSE, << >>) }

SeqsUpTo(S, n) == UNION { [1..k -> S] : k \in 0..n }

\* The pages (PriceList) a request may be answered with.
CatalogPages(sel, reg) == SeqsUpTo(CatalogItems(sel, reg), MaxPageLen)

---------------------------------------------------------------------------
(* Fetch Orchestrator: useAWSInstanceData, src/src/shared/hooks.ts *)

InFlight == {"CheckingCache", "Fetching", "Populating"}
Settled == {"ServingCached", "Done", "Failed", "Cancelled"}

\* A session that has not started.
IdleSession ==
  [ pc |-> "Idle", region |-> "", selection |-> "", cacheKeyWithRegion |-> "",
    signal |-> 0, fetch |-> NewFetch, seen |-> {},
    cancelledIn |-> "", fetchCalls |-> 0, setCalls |-> 0, written |-> FALSE,
    delivered |-> 0, errorSet |-> FALSE, toasts |-> 0,
    readFailed |-> FALSE, abortSeen |-> FALSE, transportFailed |-> FALSE ]

\* The closure of one effect run: region, cacheKey and filters are the
\* arguments of the render that ran the effect.
NewSession(sel, reg) ==
  [ IdleSession EXCEPT !.pc = "CheckingCache", !.region = reg, !.selection = sel,
                       !.cacheKeyWithRegion = KeyOf(sel, reg) ]

\* A React state setter: a no-op once the component is unmounted.
SetState(old, new) == IF mounted THEN new ELSE old

\* The catch handler returning silently for every Error instance.
IsSilent_AnyError(err) == TRUE

\* catch (error): an error named AbortError returns silently, any other is
\* reported with setError and a failure toast.
IsSilent(err) == err.name = "AbortError"

\* The session's end after an error `err` was thrown in the try block:
\* the catch handler and the finally block.
Caught(s, err, ghost) ==
  /\ sess' = [sess EXCEPT ![s] =
        [ghost EXCEPT !.pc = IF IsSilent(err) THEN "Cancelled" ELSE "Failed",
                      !.errorSet = ~IsSilent(err),
                      !.toasts = IF IsSilent(err) THEN @ ELSE @ + 1]]
  /\ error' = IF IsSilent(err) THEN error ELSE SetState(error, err.message)
  /\ isLoading' = SetState(isLoading, FALSE)
  /\ abortControllerRef' = 0

\* finally { setIsLoading(false); abortControllerRef.current = null }
Finally ==
  /\ isLoading' = SetState(isLoading, FALSE)
  /\ abortControllerRef' = 0

\* The synchronous start of fetchData, up to `await getCachedData(...)`.
StartSession(s, sel, reg) ==
  /\ sess' = [sess EXCEPT ![s] = NewSession(sel, reg)]
  /\ isLoading' = TRUE
  /\ loadingStatus' = "Checking cache..."
  /\ abortControllerRef' = s
  /\ nSessions' = s

\* The version of the envelope the orchestrator reads and writes:
\* getCachedData(cacheKeyWithRegion, 1), setCachedData(cacheKeyWithRegion, 1, ...)
CacheVersion == 1

\* The map an earlier run fetched for a selection and region.
EarlierData(sel, reg) ==
  LET item == CHOOSE i \in CatalogItems(sel, reg) :
                i.hasOnDemand /\ i.attributes["usagetype"] = "InstanceUsage"
  IN ProcessItems(NewFetch, << item >>).value.instanceData

\* The contents LocalStorage may hold under a key when the command opens:
\* nothing, text that is not JSON, JSON null, an object without a version,
\* an envelope of another version, or a version-1 envelope written by an
\* earlier run for that key.
StoredKinds == {"none", "text", "null", "noversion", "otherversion", "current"}

\* The kinds the orchestrator's sessions start from.
SessionStoredKinds == {"none", "otherversion", "current"}

StoredBefore(kind, sel, reg) ==
  CASE kind = "none" -> NoEntry
    [] kind = "text" -> Garbage
    [] kind = "null" -> JsonText(JNull)
    [] kind = "noversion" -> JsonText(JObject(FALSE, 0, TRUE, EarlierData(sel, reg)))
    [] kind = "otherversion" -> Stringify(CacheVersion + 1, EarlierData(sel, reg))
    [] OTHER -> Stringify(CacheVersion, EarlierData(sel, reg))

SelectionOfKey(k) ==
  CHOOSE p \in ViewSelections \X Regions : KeyOf(p[1], p[2]) = k

\* No direct Cache Store call yet.
NoCall ==
  [op |-> "none", key |-> "", version |-> 0, ok |-> TRUE, before |-> NoEntry,
   result |-> Return(Miss)]
NoWrite == [done |-> FALSE, version |-> 0, data |-> EmptyMap]

\* No direct Catalog Client call, no enrichment call, no details view.
IdleClient == [pc |-> "idle"]
IdleEnrich == [pc |-> "idle"]
NoBandwidthEntry == NoEntry
IdleDetails == [open |-> FALSE]
ClosedTypeView == [open |-> FALSE]
NoCompare == [compareSet |-> << >>, showCompare |-> FALSE]

InitStandalone ==
  /\ cacheCall = NoCall
  /\ lastWrite = [k \in Keys |-> NoWrite]
  /\ client = IdleClient
  /\ enrich = IdleEnrich
  /\ bandwidthStore = NoBandwidthEntry
  /\ details = IdleDetails
  /\ typeView = ClosedTypeView
  /\ compare = NoCompare

\* The hook's state after the first render (the useState initial values).
InitHook ==
  /\ mounted = FALSE
  /\ region = DefaultRegion
  /\ selection = DefaultSelection
  /\ refreshKey = 0
  /\ nSessions = 0
  /\ instanceData = EmptyMap
  /\ instanceDataOf = 0
  /\ error = null
  /\ isLoading = TRUE
  /\ loadingStatus = "Initializing..."
  /\ fetchProgress = [current |-> 0, total |-> 0]
  /\ abortControllerRef = 0
  /\ aborted = {}
  /\ sess = [s \in Sessions |-> IdleSession]

StorageOfKind(kind) ==
  [k \in Keys |-> StoredBefore(kind, SelectionOfKey(k)[1], SelectionOfKey(k)[2])]

Init ==
  /\ InitHook
  /\ \E kind \in SessionStoredKinds : storage = StorageOfKind(kind)
  /\ InitStandalone

\* The first effect run, on mount.
MountEffect ==
  /\ ~mounted /\ nSessions = 0
  /\ mounted' = TRUE
  /\ StartSession(1, selection, region)
  /\ UNCHANGED << region, selection, refreshKey, instanceData, instanceDataOf,
                  error, fetchProgress, aborted, storage >>

Mount ==
  /\ MountEffect
  /\ UNCHANGED standaloneVars

\* The effect's cleanup: if (abortControllerRef.current) abortControllerRef.current.abort()
CleanupAborted ==
  IF abortControllerRef # 0 THEN aborted \cup {abortControllerRef} ELSE aborted

\* The cleanup belongs to the latest effect run; it cancels that run's
\* session if the session is still in flight.
MarkCancelled(ss) ==
  [ss EXCEPT ![nSessions].cancelledIn =
     IF ss[nSessions].pc \in InFlight /\ @ = "" THEN ss[nSessions].pc ELSE @]

\* The dependency list [region, serviceCode, ...dependencies] of the effect,
\* with dependencies = [selectedService, refreshKey] as the views pass them.
EffectDeps(sel, reg, key) == << reg, SERVICE_CONFIGS[sel].serviceCode, sel, key >>

\* A render with changed dependencies (the service dropdown, a new region,
\* Refresh Pricing): the cleanup of the previous effect run, then a new run.
ChangeDeps(sel, reg, key) ==
  /\ mounted /\ nSessions >= 1 /\ nSessions < MaxSessions
  /\ EffectDeps(sel, reg, key) # EffectDeps(selection, region, refreshKey)
  /\ selection' = sel /\ region' = reg /\ refreshKey' = key
  /\ aborted' = CleanupAborted
  /\ sess' = [MarkCancelled(sess) EXCEPT ![nSessions + 1] = NewSession(sel, reg)]
  /\ isLoading' = TRUE
  /\ loadingStatus' = "Checking cache..."
  /\ abortControllerRef' = nSessions + 1
  /\ nSessions' = nSessions + 1
  /\ UNCHANGED << mounted, instanceData, instanceDataOf, error, fetchProgress, storage >>
  /\ UNCHANGED standaloneVars

\* The component unmounts: the cleanup of the last effect run.
Unmount ==
  /\ mounted /\ nSessions >= 1
  /\ mounted' = FALSE
  /\ aborted' = CleanupAborted
  /\ sess' = MarkCancelled(sess)
  /\ UNCHANGED << region, selection, refreshKey, nSessions, instanceData, instanceDataOf,
                  error, isLoading, loadingStatus, fetchProgress, abortControllerRef, storage >>
  /\ UNCHANGED standaloneVars

\* LocalStorage.getItem settles and fetchData runs up to its next await:
\* a hit serves the cached map; a miss reads abortControllerRef.current.signal
\* and calls fetchInstanceData, which requests the first page.
CacheRead(s, readOk) ==
  /\ sess[s].pc = "CheckingCache"
  /\ LET me == sess[s]
         r == getCachedData(storage[me.cacheKeyWithRegion], CacheVersion, readOk)
         ghost == [me EXCEPT !.readFailed = ~readOk]
     IN IF r.threw
          THEN /\ Caught(s, r, ghost)
               /\ UNCHANGED << instanceData, instanceDataOf, loadingStatus >>
        ELSE IF r.value.found
          THEN /\ loadingStatus' = SetState(loadingStatus, "Loading cached data...")
               /\ instanceData' = SetState(instanceData, r.value.data)
               /\ instanceDataOf' = SetState(instanceDataOf, s)
               /\ sess' = [sess EXCEPT ![s] =
                            [ghost EXCEPT !.pc = "ServingCached", !.delivered = @ + 1]]
               /\ error' = error
               /\ Finally
        ELSE IF abortControllerRef = 0
          THEN /\ loadingStatus' = SetState(loadingStatus, "Fetching data from AWS...")
               /\ Caught(s, Throw(NewFetch, "TypeError",
                                  "Cannot read properties of null (reading 'signal')"), ghost)
               /\ UNCHANGED << instanceData, instanceDataOf >>
        ELSE /\ loadingStatus' = SetState(loadingStatus, "Fetching data from AWS...")
             /\ sess' = [sess EXCEPT ![s] =
                          [ghost EXCEPT !.pc = "Fetching", !.signal = abortControllerRef,
                                        !.fetchCalls = @ + 1]]
             /\ UNCHANGED << instanceData, instanceDataOf, error, isLoading,
                             abortControllerRef >>
  /\ UNCHANGED << mounted, region, selection, refreshKey, nSessions, fetchProgress,
                  aborted, storage >>
  /\ UNCHANGED standaloneVars

\* A page of the catalog arrives; `more` says whether it carries a NextToken.
\* After the last page fetchInstanceData returns and fetchData runs up to
\* `await setCachedData(...)`.
PageArrives(s, page, more) ==
  /\ sess[s].pc = "Fetching"
  /\ more => sess[s].fetch.pageCount + 1 < MaxPages
  /\ LET me == sess[s]
         r == PageStep(me.fetch, page, me.signal \in aborted)
         ghost == [me EXCEPT !.seen = IF r.threw THEN @ ELSE @ \cup ValidItems(page),
                             !.abortSeen = me.signal \in aborted]
     IN IF r.threw
          THEN /\ Caught(s, r, ghost)
               /\ UNCHANGED << instanceData, instanceDataOf, loadingStatus, fetchProgress >>
        ELSE IF more
          THEN /\ fetchProgress' = SetState(fetchProgress, Progress(r.value))
               /\ sess' = [sess EXCEPT ![s] = [ghost EXCEPT !.fetch = r.value]]
               /\ UNCHANGED << instanceData, instanceDataOf, error, isLoading,
                               loadingStatus, abortControllerRef >>
        ELSE /\ fetchProgress' = SetState(fetchProgress, Progress(r.value))
             /\ instanceData' = SetState(instanceData, r.value.instanceData)
             /\ instanceDataOf' = SetState(instanceDataOf, s)
             /\ loadingStatus' = SetState(loadingStatus, "Populating cache...")
             /\ sess' = [sess EXCEPT ![s] =
                          [ghost EXCEPT !.fetch = r.value, !.pc = "Populating",
                                        !.delivered = @ + 1, !.setCalls = @ + 1]]
             /\ UNCHANGED << error, isLoading, abortControllerRef >>
  /\ UNCHANGED << mounted, region, selection, refreshKey, nSessions, aborted, storage >>
  /\ UNCHANGED standaloneVars

\* The catalog answers the page request of session s.
CatalogAnswers(s) ==
  /\ sess[s].pc = "Fetching"
  /\ \E page \in CatalogPages(sess[s].selection, sess[s].region), more \in BOOLEAN :
       PageArrives(s, page, more)

\* The paginator throws a transport or authorization error.
PageFails(s, err) ==
  /\ sess[s].pc = "Fetching"
  /\ Caught(s, Throw(sess[s].fetch, err.name, err.message),
            [sess[s] EXCEPT !.transportFailed = TRUE])
  /\ UNCHANGED << mounted, region, selection, refreshKey, nSessions, instanceData,
                  instanceDataOf, loadingStatus, fetchProgress, aborted, storage >>
  /\ UNCHANGED standaloneVars

\* LocalStorage.setItem settles (a rejection is caught inside setCachedData),
\* then the finally block runs.
CacheWritten(s, writeOk) ==
  /\ sess[s].pc = "Populating"
  /\ LET me == sess[s]
         r == setCachedData(storage[me.cacheKeyWithRegion], CacheVersion,
                            me.fetch.instanceData, writeOk)
     IN IF r.threw
          THEN /\ Caught(s, r, me)
               /\ storage' = storage
        ELSE /\ storage' = [storage EXCEPT ![me.cacheKeyWithRegion] = r.value]
             /\ sess' = [sess EXCEPT ![s].pc = "Done", ![s].written = writeOk]
             /\ error' = error
             /\ Finally
  /\ UNCHANGED << mounted, region, selection, refreshKey, nSessions, instanceData,
                  instanceDataOf, loadingStatus, fetchProgress, aborted >>
  /\ UNCHANGED standaloneVars

Next ==
  \/ Mount
  \/ \E sel \in ViewSelections, reg \in Regions : ChangeDeps(sel, reg, refreshKey)
  \/ ChangeDeps(selection, region, refreshKey + 1)
  \/ Unmount
  \/ \E s \in Sessions, readOk \in BOOLEAN : CacheRead(s, readOk)
  \/ \E s \in Sessions : CatalogAnswers(s)
  \/ \E s \in Sessions, err \in TransportErrors : PageFails(s, err)
  \/ \E s \in Sessions, writeOk \in BOOLEAN : CacheWritten(s, writeOk)

Spec == Init /\ [][Next]_vars

---------------------------------------------------------------------------
(* The Cache Store on its own: direct calls of getCachedData and            *)
(* setCachedData with keys, versions and payloads drawn from bounded sets.  *)

CacheKeys == { KeyOf(sel, DefaultRegion) : sel \in ViewSelections }
CacheVersions == { CacheVersion, CacheVersion + 1 }
CachePayloads ==
  {EmptyMap} \cup { EarlierData(sel, DefaultRegion) : sel \in ViewSelections }

InitCache ==
  /\ InitHook
  /\ \E kind \in StoredKinds : storage = StorageOfKind(kind)
  /\ InitStandalone

\* await getCachedData(key, version); ok: LocalStorage.getItem resolved.
CacheGet(key, version, ok) ==
  /\ cacheCall' = [op |-> "get", key |-> key, version |-> version, ok |-> ok,
                   before |-> storage[key],
                   result |-> getCachedData(storage[key], version, ok)]
  /\ UNCHANGED << storage, lastWrite, hookVars, clientVars, enrichVars, detailVars, viewVars >>

\* await setCachedData(key, version, data); ok: LocalStorage.setItem resolved.
CacheSet(key, version, data, ok) ==
  /\ storage' = [storage EXCEPT ![key] = setCachedData(@, version, data, ok).value]
  /\ lastWrite' = IF ok THEN [lastWrite EXCEPT ![key] =
                                 [done |-> TRUE, version |-> version, data |-> data]]
                   ELSE lastWrite
  /\ cacheCall' = [op |-> "set", key |-> key, version |-> version, ok |-> ok,
                   before |-> storage[key], result |-> Return(Miss)]
  /\ UNCHANGED << hookVars, clientVars, enrichVars, detailVars, viewVars >>

NextCache ==
  \/ \E key \in CacheKeys, version \in CacheVersions, ok \in BOOLEAN :
       CacheGet(key, version, ok)
  \/ \E key \in CacheKeys, version \in CacheVersions, data \in CachePayloads, ok \in BOOLEAN :
       CacheSet(key, version, data, ok)

SpecCache == InitCache /\ [][NextCache]_vars

---------------------------------------------------------------------------
(* Properties of the Cache Store (checked under SpecCache) *)

\* C1: Cache version law.  After a setCachedData(k, V, p) that LocalStorage
\* performed, with no later write to k, a getCachedData(k, V) whose read
\* LocalStorage performed returns p, and getCachedData(k, V') with V' # V
\* returns null.
C1_CacheVersionLaw ==
  (cacheCall.op = "get" /\ cacheCall.ok /\ lastWrite[cacheCall.key].done) =>
    LET w == lastWrite[cacheCall.key] IN
      /\ ~cacheCall.result.threw
      /\ cacheCall.result.value =
           (IF cacheCall.version = w.version THEN Hit(w.data) ELSE Miss)

\* A read of a written key with the written version returned a non-empty payload.
C1_Witness ==
  /\ cacheCall.op = "get" /\ cacheCall.ok
  /\ lastWrite[cacheCall.key].done
  /\ cacheCall.version = lastWrite[cacheCall.key].version
  /\ lastWrite[cacheCall.key].data # EmptyMap
  /\ cacheCall.result.value = Hit(lastWrite[cacheCall.key].data)

\* The stored content is no envelope of the requested version.
NotAnEnvelopeOf(content, version) ==
  \/ content.kind \in {"none", "text"}
  \/ /\ content.kind = "json"
     /\ \/ content.value.t = "null"
        \/ ~content.value.hasVersion
        \/ content.value.version # version

\* C9: getCachedData never throws to the caller.  For no entry, non-JSON
\* text, JSON null, JSON without a version member, an envelope of another
\* version, and for a storage read error, it returns null, and the stored
\* entry is what it was before the call.
C9_GetNeverThrows ==
  cacheCall.op = "get" =>
    /\ ~cacheCall.result.threw
    /\ storage[cacheCall.key] = cacheCall.before
    /\ (~cacheCall.ok \/ NotAnEnvelopeOf(cacheCall.before, cacheCall.version))
         => cacheCall.result.value = Miss

\* A read of a key holding JSON null (cachedData.version throws inside).
C9_Witness ==
  /\ cacheCall.op = "get" /\ cacheCall.ok
  /\ cacheCall.before = JsonText(JNull)
  /\ cacheCall.result = Return(Miss)

---------------------------------------------------------------------------
(* Properties of the Fetch Orchestrator (checked under Spec) *)

\* The stored content is a version-1 envelope with a payload.
HoldsCurrent(content) ==
  /\ content.kind = "json" /\ content.value.t = "object"
  /\ content.value.hasVersion /\ content.value.version = CacheVersion
  /\ content.value.hasData

\* Session s takes a step of its own code (the cleanup of an effect only
\* marks the session as cancelled).
Steps(s) == [sess'[s] EXCEPT !.cancelledIn = ""] # [sess[s] EXCEPT !.cancelledIn = ""]

\* C2: Idempotence on a populated cache.  When the cache holds an entry of
\* the requested version under the session's key and the read is performed,
\* the session sets instanceData to the cached payload, never invokes
\* fetchInstanceData and performs no cache write (so two such sessions in
\* succession deliver the same data); a session served from the cache has
\* made no catalog call and no cache write.
C2_ServedFromCache ==
  /\ [](\A s \in Sessions :
          sess[s].pc = "ServingCached" =>
            sess[s].fetchCalls = 0 /\ sess[s].setCalls = 0 /\ sess[s].delivered = 1)
  /\ [][\A s \in Sessions :
          ( /\ sess[s].pc = "CheckingCache" /\ Steps(s)
            /\ ~sess'[s].readFailed
            /\ HoldsCurrent(storage[sess[s].cacheKeyWithRegion]) )
          => /\ sess'[s].pc = "ServingCached"
             /\ sess'[s].fetchCalls = 0 /\ sess'[s].setCalls = 0
             /\ storage' = storage
             /\ mounted => /\ instanceData' = storage[sess[s].cacheKeyWithRegion].value.data
                            /\ instanceDataOf' = s]_vars

\* Two sessions in succession for the same key were both served from the
\* cache, and the data shown is the cached payload.
C2_Witness ==
  /\ nSessions = 2
  /\ sess[1].pc = "ServingCached" /\ sess[2].pc = "ServingCached"
  /\ sess[1].cacheKeyWithRegion = sess[2].cacheKeyWithRegion
  /\ instanceDataOf = 2
  /\ instanceData # EmptyMap
  /\ instanceData = storage[sess[2].cacheKeyWithRegion].value.data

\* fetchInstanceData has returned in session s.
Returned(s) == sess[s].pc \in {"Populating", "Done"}

\* The record the result map should hold for a valid price item.
RecordOf(item) == InstanceRecord(parseFloat(item.onDemand[1][1]), item.attributes)

\* The composite key instanceType|usageType of a price item.
CompositeKey(item) ==
  item.attributes["instanceType"] \o "|" \o item.attributes["usagetype"]

\* C3 (as claimed): the map fetchInstanceData returns holds exactly the
\* valid records of all pages, one entry per composite key
\* instanceType|usageType, so two valid records of one instance type with
\* different usageType are both present.
C3_AllValidRecordsPresent ==
  \A s \in Sessions :
    Returned(s) =>
      LET data == sess[s].fetch.instanceData IN
      /\ Cardinality(DOMAIN data) = Cardinality({ CompositeKey(i) : i \in sess[s].seen })
      /\ \A i \in sess[s].seen : \E k \in DOMAIN data : data[k] = RecordOf(i)

\* C4 (as claimed): when a session's fetch sees its signal aborted at a page
\* boundary, the session ends Cancelled, it does not set error and shows
\* no failure toast.
C4_AbortIsNotAnError ==
  \A s \in Sessions :
    sess[s].abortSeen =>
      sess[s].pc = "Cancelled" /\ ~sess[s].errorSet /\ sess[s].toasts = 0

\* C5 (as claimed): a session the caller cancelled (the cleanup of its
\* effect ran) while it was checking the cache or waiting for a catalog
\* page performs no cache set.
C5_CancelledWritesNothing ==
  \A s \in Sessions :
    sess[s].cancelledIn \in {"CheckingCache", "Fetching"} =>
      sess[s].setCalls = 0 /\ ~sess[s].written

\* C6 (as claimed): once a newer session has started, a stale session does
\* not call setInstanceData.
C6_StaleNeverDelivers ==
  [][\A s \in Sessions : s < nSessions => sess'[s].delivered = sess[s].delivered]_vars

\* C7: a transport or authorization failure of the Catalog Client is
\* surfaced exactly once.  The session ends Failed, with error set to the
\* error's message and isLoading false, shows exactly one failure toast and
\* makes no cache write.
C7_TransportFailureSurfacedOnce ==
  /\ [](\A s \in Sessions :
          sess[s].transportFailed =>
            /\ sess[s].pc = "Failed" /\ sess[s].errorSet /\ sess[s].toasts = 1
            /\ sess[s].setCalls = 0 /\ ~sess[s].written)
  /\ [][\A s \in Sessions :
          (~sess[s].transportFailed /\ sess'[s].transportFailed) =>
            /\ storage' = storage
            /\ mounted => /\ error' \in { e.message : e \in TransportErrors }
                           /\ isLoading' = FALSE]_vars

\* A session failed on a transport error; the view shows the error.
C7_Witness ==
  \E s \in Sessions :
    /\ sess[s].transportFailed /\ sess[s].pc = "Failed" /\ sess[s].toasts = 1
    /\ sess[s].fetch.pageCount = 1
    /\ error \in { e.message : e \in TransportErrors } /\ ~isLoading

\* C8: on a cache miss followed by a successful fetch the session goes
\* CheckingCache -> Fetching -> Populating -> Done.  It calls the cache set
\* exactly once, under prefix_region, with version 1 and the whole fetched
\* map, only after the Catalog Client returned and before its finally block
\* reports done; when LocalStorage performs the write, a get for that key
\* and version returns that map.
C8_PopulateOnceThenDone ==
  /\ [](\A s \in Sessions :
          /\ sess[s].pc \in {"CheckingCache", "Fetching"} => sess[s].setCalls = 0
          /\ sess[s].pc \in {"Populating", "Done"} =>
               /\ sess[s].setCalls = 1 /\ sess[s].fetchCalls = 1
               /\ sess[s].cacheKeyWithRegion =
                    SERVICE_CONFIGS[sess[s].selection].cacheKey \o "_" \o sess[s].region)
  /\ [][\A s \in Sessions :
          /\ (sess'[s].pc = "Fetching" /\ Steps(s)) => sess[s].pc \in {"CheckingCache", "Fetching"}
          /\ (sess'[s].pc = "Populating" /\ Steps(s)) => sess[s].pc = "Fetching"
          /\ (sess'[s].pc = "Done" /\ Steps(s)) =>
               /\ sess[s].pc = "Populating"
               /\ mounted => ~isLoading'
               /\ sess'[s].written =>
                    getCachedData(storage'[sess[s].cacheKeyWithRegion], CacheVersion, TRUE)
                      = Return(Hit(sess[s].fetch.instanceData))]_vars

\* A session is done after two pages, and its key holds the fetched map.
C8_Witness ==
  \E s \in Sessions :
    /\ sess[s].pc = "Done" /\ sess[s].written
    /\ sess[s].fetch.pageCount = 2
    /\ sess[s].fetch.instanceData # EmptyMap
    /\ storage[sess[s].cacheKeyWithRegion] = Stringify(CacheVersion, sess[s].fetch.instanceData)

\* C10: cache failures are never fatal to a session.  A session whose
\* storage read fails proceeds as on a cache miss: it calls the Catalog
\* Client, and sets no error and shows no toast in that step.  A session
\* whose storage write fails after a successful fetch ends Done with
\* instanceData equal to the fetched map, error null and no toast.
C10_CacheFailuresNotFatal ==
  [][\A s \in Sessions :
       /\ (sess[s].pc = "CheckingCache" /\ Steps(s) /\ sess'[s].readFailed) =>
            /\ sess'[s].pc = "Fetching" /\ sess'[s].fetchCalls = 1
            /\ error' = error /\ sess'[s].toasts = 0
       /\ (sess[s].pc = "Populating" /\ Steps(s) /\ ~sess'[s].written) =>
            /\ sess'[s].pc = "Done" /\ sess'[s].toasts = 0
            /\ mounted => /\ error' = null
                           /\ instanceData' = sess[s].fetch.instanceData]_vars

\* C11 (as claimed): the Failed state is reached only through a Catalog
\* Client error.  A session sets error (and ends Failed) only when its own
\* fetchInstanceData call was made and rejected with a catalog error; hits,
\* misses, cache failures, cancellations and restarts set no error.
C11_FailedOnlyByCatalogError ==
  \A s \in Sessions :
    (sess[s].errorSet \/ sess[s].pc = "Failed") =>
      sess[s].fetchCalls = 1 /\ sess[s].transportFailed

---------------------------------------------------------------------------
(* The Catalog Client on its own: one call of fetchInstanceData, answered  *)
(* page by page, with malformed records among the valid ones.              *)

MaxClientPages == 2      \* pages of the response
MaxClientPageLen == 2    \* price items of one page

\* Records the catalog may return besides those of CatalogItems: a record
\* without product.attributes, one without an instance type, one of the
\* large type that has no on-demand term, and one whose terms.OnDemand is
\* an empty object.
MalformedItems(sel, reg) ==
  LET fl == FiltersOf(sel, reg)
      large == getInstancePrefix(sel) \o "r6g.large"
  IN { PriceItem(FALSE, EmptyMap, TRUE, << << "0.2600000000" >> >>),
       PriceItem(TRUE, Attributes(fl, "", "InstanceUsage"), TRUE, << << "0.5200000000" >> >>),
       PriceItem(TRUE, Attributes(fl, large, "ReservedUsage"), FALSE, << >>),
       PriceItem(TRUE, Attributes(fl, large, "InstanceUsage"), TRUE, << >>) }

ClientItems(sel, reg) == CatalogItems(sel, reg) \cup MalformedItems(sel, reg)

\* The pages (PriceList) a direct call may be answered with.
ClientPages(sel, reg) == SeqsUpTo(ClientItems(sel, reg), MaxClientPageLen)

NoError == [name |-> "", message |-> ""]

\* What setProgress is called with after a page: the page count, an
\* unknown total, and the record count of the message.
ProgressReport(f) == [current |-> f.pageCount, total |-> null, instanceCount |-> f.instanceCount]

\* fetchInstanceData(region, serviceCode, filters, setProgress, signal) is called.
ClientCall(sel, reg) ==
  /\ client.pc = "idle"
  /\ client' = [pc |-> "running", selection |-> sel, region |-> reg,
                signalAborted |-> FALSE, f |-> NewFetch, pages |-> << >>,
                reports |-> << >>, cause |-> "", thrown |-> NoError]
  /\ UNCHANGED << hookVars, storage, cacheVars, enrichVars, detailVars, viewVars >>

\* The caller aborts the signal while the call is running.
ClientSignalAborts ==
  /\ client.pc = "running" /\ ~client.signalAborted
  /\ client' = [client EXCEPT !.signalAborted = TRUE]
  /\ UNCHANGED << hookVars, storage, cacheVars, enrichVars, detailVars, viewVars >>

\* The paginator yields a page: the abort check, the record loop, setProgress.
ClientPage(page) ==
  /\ client.pc = "running"
  /\ Len(client.pages) < MaxClientPages
  /\ LET r == PageStep(client.f, page, client.signalAborted) IN
     client' = IF r.threw
                 THEN [client EXCEPT !.pc = "threw",
                                     !.cause = IF client.signalAborted THEN "abort" ELSE "record",
                                     !.pages = Append(@, page),
                                     !.thrown = [name |-> r.name, message |-> r.message]]
                 ELSE [client EXCEPT !.f = r.value, !.pages = Append(@, page),
                                     !.reports = Append(@, ProgressReport(r.value))]
  /\ UNCHANGED << hookVars, storage, cacheVars, enrichVars, detailVars, viewVars >>

\* The catalog answers the page request of the call.
ClientAnswers ==
  /\ client.pc = "running"
  /\ \E page \in ClientPages(client.selection, client.region) : ClientPage(page)

\* The paginator rejects with a transport or authorization error.
ClientPageFails(err) ==
  /\ client.pc = "running"
  /\ client' = [client EXCEPT !.pc = "threw", !.cause = "transport", !.thrown = err]
  /\ UNCHANGED << hookVars, storage, cacheVars, enrichVars, detailVars, viewVars >>

\* The paginator is exhausted: return instanceData.
ClientReturns ==
  /\ client.pc = "running"
  /\ Len(client.pages) >= 1
  /\ client' = [client EXCEPT !.pc = "returned"]
  /\ UNCHANGED << hookVars, storage, cacheVars, enrichVars, detailVars, viewVars >>

InitClient ==
  /\ InitHook
  /\ storage = StorageOfKind("none")
  /\ InitStandalone

NextClient ==
  \/ \E sel \in ViewSelections : ClientCall(sel, DefaultRegion)
  \/ ClientSignalAborts
  \/ ClientAnswers
  \/ \E err \in TransportErrors : ClientPageFails(err)
  \/ ClientReturns

SpecClient == InitClient /\ [][NextClient]_vars

---------------------------------------------------------------------------
(* Properties of the Catalog Client (checked under SpecClient) *)

\* The records of a sequence of pages, in the order of the record loop.
RECURSIVE Flatten(_)
Flatten(pages) == IF pages = << >> THEN << >> ELSE Head(pages) \o Flatten(Tail(pages))

\* A record with an instance type whose JSON has no terms.OnDemand.
LacksOnDemand(item) ==
  item.hasAttributes /\ item.attributes["instanceType"] # "" /\ ~item.hasOnDemand

HasOnDemandTerm(item) == ~LacksOnDemand(item)

\* The call has not thrown: client.f holds the effect of all of client.pages.
ClientAlive == client.pc \in {"running", "returned"}

\* C12: a record without terms.OnDemand is left out of the result map.  No
\* entry of the map is made from it (with a zero, null or any price), and
\* the map and the record count are those of the same pages without it.
C12_NoOnDemandSkipped ==
  ClientAlive =>
    LET items == Flatten(client.pages)
        data == client.f.instanceData
        rest == ProcessItems(NewFetch, SelectSeq(items, HasOnDemandTerm))
    IN /\ \A i \in DOMAIN items :
            LacksOnDemand(items[i]) =>
              \A k \in DOMAIN data : data[k].attributes # items[i].attributes
       /\ ~rest.threw
       /\ data = rest.value.instanceData
       /\ client.f.instanceCount = rest.value.instanceCount

\* The call returned after a page that holds a record without an on-demand
\* term next to a valid one; the valid one is in the map with its price.
C12_Witness ==
  /\ client.pc = "returned"
  /\ \E p \in DOMAIN client.pages :
       /\ Len(client.pages[p]) = 2
       /\ LacksOnDemand(client.pages[p][1])
       /\ IsValidItem(client.pages[p][2])
       /\ client.pages[p][2].attributes["instanceType"] \in DOMAIN client.f.instanceData
  /\ Cardinality(DOMAIN client.f.instanceData) = 1
  /\ \A k \in DOMAIN client.f.instanceData :
       client.f.instanceData[k].pricePerHour \in {Num(26), Num(31)}

\* The malformed records the claim names: no product.attributes, no
\* instance type, or no on-demand term.
NamedMalformed(item) ==
  \/ ~item.hasAttributes
  \/ item.attributes["instanceType"] = ""
  \/ ~item.hasOnDemand

\* C13 (as claimed): a malformed record is skipped and is not fatal.  When
\* every record of the pages is valid or malformed in a named way, the call
\* throws only for an abort or a transport error, and once it has returned
\* the map holds the record of every valid record of every page.
C13_MalformedRecordsNotFatal ==
  LET items == Flatten(client.pages) IN
  (/\ client.pc \in {"running", "returned", "threw"}
   /\ \A i \in DOMAIN items : IsValidItem(items[i]) \/ NamedMalformed(items[i]))
  => /\ client.pc = "threw" => client.cause \in {"abort", "transport"}
     /\ client.pc = "returned" =>
          \A i \in DOMAIN items :
            IsValidItem(items[i]) =>
              \E k \in DOMAIN client.f.instanceData :
                client.f.instanceData[k] = RecordOf(items[i])

---------------------------------------------------------------------------
(* Capability enrichment: the batched fetchBaselineBandwidth(nodeTypes,    *)
(* region) of src/unnamed/part_004 and, with the cache and the validation  *)
(* pass, of src/unnamed/part_005.                                          *)

MaxTypes == 201          \* instance types the EC2 region model knows
MaxEnrichCalls == 2      \* calls of fetchBaselineBandwidth in one behaviour

\* chunkArray(ec2InstanceTypes, 100)
BatchSize == 100

EnrichVersions == {"part_004", "part_005"}

\* str.replace(pattern, replacement) with a string pattern: the first
\* occurrence is replaced, wherever it is.
replace(str, pattern, replacement) ==
  LET n == Len(pattern)
      at == { i \in 1..(Len(str) - n + 1) : SubSeq(str, i, i + n - 1) = pattern }
  IN IF at = {} THEN str
     ELSE LET i == CHOOSE j \in at : \A k \in at : j <= k
          IN SubSeq(str, 1, i - 1) \o replacement \o SubSeq(str, i + n, Len(str))

\* nodeTypes.map(...): part_004 strips "cache.", part_005 "cache." and "db.".
BareType(version, type) ==
  IF version = "part_004" THEN replace(type, "cache.", "")
  ELSE replace(replace(type, "cache.", ""), "db.", "")

\* function chunkArray<T>(array, chunkSize)
chunkArray(array, chunkSize) ==
  [c \in 1..((Len(array) + chunkSize - 1) \div chunkSize) |->
     SubSeq(array, (c - 1) * chunkSize + 1,
            IF c * chunkSize < Len(array) THEN c * chunkSize ELSE Len(array))]

\* The EC2 instance type names of the model: a family name and a size number.
TypeName(i) == "m5.s" \o ToString(i)

TypeNames == [i \in 1..MaxTypes |-> TypeName(i)]
AllTypes == { TypeNames[i] : i \in 1..MaxTypes }

\* The types a region offers: eu-west-1 lacks the second one.
Ec2Offers(reg, name) ==
  name \in AllTypes /\ (reg = "eu-west-1" => name # TypeNames[2])

\* NetworkInfo.NetworkCards[0].BaselineBandwidthInGbps of the i-th type;
\* 0 stands for a type that reports none.
BandwidthOfSize(i) == IF i % 4 = 0 THEN 0 ELSE IF i % 2 = 0 THEN 25 ELSE 10

Ec2Catalog == [n \in AllTypes |->
                 BandwidthOfSize(CHOOSE i \in 1..MaxTypes : TypeNames[i] = n)]

\* `${baselineBandwidth} Gbps`
Gbps(n) == ToString(n) \o " Gbps"

\* The InstanceTypes of a DescribeInstanceTypes response for the names of a
\* request: one instanceTypeInfo for each type named.
DescribedTypes(names) ==
  { [InstanceType |-> names[i], BaselineBandwidthInGbps |-> Ec2Catalog[names[i]]] :
      i \in DOMAIN names }

\* EC2 rejects a request naming a type the region does not offer
\* (InvalidInstanceType).
Describable(names, reg) == \A i \in DOMAIN names : Ec2Offers(reg, names[i])

\* The merge replacing the whole map by the entries of one response.
MergeResponse_ReplacesMap(version, baselineBandwidths, infos) ==
  [x \in { info.InstanceType : info \in infos } |->
     LET info == CHOOSE i \in infos : i.InstanceType = x
     IN IF info.BaselineBandwidthInGbps # 0
          THEN Gbps(info.BaselineBandwidthInGbps) ELSE "Unknown"]

\* for (const instanceTypeInfo of response.InstanceTypes)
\*   baselineBandwidths[instanceType] = ...
\* part_004 stores "Unknown" for a type without a bandwidth, part_005
\* stores nothing for it.
MergeResponse(version, baselineBandwidths, infos) ==
  LET stored == { info \in infos :
                    info.BaselineBandwidthInGbps # 0 \/ version = "part_004" }
      entry == [info \in stored |->
                  IF info.BaselineBandwidthInGbps # 0
                    THEN Gbps(info.BaselineBandwidthInGbps) ELSE "Unknown"]
      names == { info.InstanceType : info \in stored }
  IN [x \in (DOMAIN baselineBandwidths) \cup names |->
        IF x \in names
          THEN entry[CHOOSE info \in stored : info.InstanceType = x]
        ELSE baselineBandwidths[x]]

\* part_005's own cache functions store the data without an envelope:
\* LocalStorage.setItem(key, JSON.stringify(data)).
BandwidthsText(map) == JsonText([t |-> "bandwidths", entries |-> map])

\* part_005 getCachedData(key): the parsed content, null when there is
\* none, when the read fails or when the text is not JSON.
getCachedData_unversioned(content, readOk) ==
  IF ~readOk \/ content.kind # "json" THEN Miss
  ELSE IF content.value.t = "bandwidths" THEN Hit(content.value.entries)
  ELSE Miss

\* part_005 setCachedData(key, data): the content of the key afterwards.
setCachedData_unversioned(old, data, writeOk) ==
  IF writeOk THEN BandwidthsText(data) ELSE old

\* The node type lists the views may pass: none, two prefixed names, two
\* bare names of which eu-west-1 offers one, every type of the model, and
\* every type with the cache node of the first type in the place of the
\* 101st.
NodeTypeLists ==
  { << >>,
    << "cache." \o TypeNames[1], "db." \o TypeNames[3] >>,
    << TypeNames[1], TypeNames[2] >>,
    TypeNames,
    [i \in 1..MaxTypes |->
       IF i = BatchSize + 1 THEN "cache." \o TypeNames[1] ELSE TypeNames[i]] }

\* No call of fetchBaselineBandwidth yet, in a build of the given version.
NoEnrichCall(version) ==
  [pc |-> "idle", version |-> version, nodeTypes |-> << >>, region |-> "",
   bare |-> << >>, chunks |-> << >>, pending |-> {}, failed |-> {}, order |-> << >>,
   baselineBandwidths |-> EmptyMap, fromCache |-> FALSE, calls |-> << >>]

\* A finished call, as the caller saw it.
EnrichResult(e, result, fromCache) ==
  [nodeTypes |-> e.nodeTypes, region |-> e.region, result |-> result,
   fromCache |-> fromCache, chunks |-> e.chunks, failed |-> e.failed, order |-> e.order]

\* fetchBaselineBandwidth(nodeTypes, region) is called: part_005 returns
\* the cached map when there is one; otherwise the names are stripped, and
\* part_004 sends its batches while part_005 starts validating.
EnrichCall(types, reg, readOk) ==
  /\ enrich.pc \in {"idle", "returned"}
  /\ Len(enrich.calls) < MaxEnrichCalls
  /\ LET fresh == [NoEnrichCall(enrich.version) EXCEPT
                     !.nodeTypes = types, !.region = reg, !.calls = enrich.calls,
                     !.bare = [i \in DOMAIN types |-> BareType(enrich.version, types[i])]]
         cached == getCachedData_unversioned(bandwidthStore, readOk)
         chunks == chunkArray(fresh.bare, BatchSize)
     IN enrich' =
          IF enrich.version = "part_005" /\ cached.found
            THEN [fresh EXCEPT !.pc = "returned", !.fromCache = TRUE,
                               !.baselineBandwidths = cached.data,
                               !.calls = Append(@, EnrichResult(fresh, cached.data, TRUE))]
          ELSE IF enrich.version = "part_005"
            THEN [fresh EXCEPT !.pc = "validating"]
          ELSE [fresh EXCEPT !.pc = "batches", !.chunks = chunks, !.pending = DOMAIN chunks]
  /\ UNCHANGED << bandwidthStore, hookVars, storage, cacheVars, clientVars, detailVars, viewVars >>

\* part_005's validation pass: one DescribeInstanceTypes per name, in
\* order; a name whose request fails (not offered in the region, or, when
\* `flaky`, the first name's request failing for another reason) is left out.
EnrichValidates(flaky) ==
  /\ enrich.pc = "validating"
  /\ flaky => enrich.bare # << >>
  /\ LET Valid(name) == /\ Describable(<< name >>, enrich.region)
                        /\ ~(flaky /\ name = enrich.bare[1])
         valid == SelectSeq(enrich.bare, Valid)
         chunks == chunkArray(valid, BatchSize)
     IN enrich' = [enrich EXCEPT !.pc = "batches", !.chunks = chunks,
                                 !.pending = DOMAIN chunks]
  /\ UNCHANGED << bandwidthStore, hookVars, storage, cacheVars, clientVars, detailVars, viewVars >>

\* The try block of one batch's async function: ec2Client.send rejects, or
\* the entries of the response are merged into baselineBandwidths.
BatchTry(version, baselineBandwidths, chunk, ok) ==
  IF ok THEN Return(MergeResponse(version, baselineBandwidths, DescribedTypes(chunk)))
  ELSE Throw(baselineBandwidths, "InvalidInstanceType", "describe request failed")

\* The batch's async function without its try/catch.
BatchPromise_NoCatch(version, baselineBandwidths, chunk, ok) ==
  BatchTry(version, baselineBandwidths, chunk, ok)

\* The batch's async function: catch (error) { console.error(...) }
BatchPromise(version, baselineBandwidths, chunk, ok) ==
  LET r == BatchTry(version, baselineBandwidths, chunk, ok) IN
  IF r.threw THEN Return(baselineBandwidths) ELSE r

\* The request of batch b settles.  A rejected batch promise would reject
\* Promise.all and with it fetchBaselineBandwidth.
BatchSettles(b, ok) ==
  /\ enrich.pc = "batches"
  /\ b \in enrich.pending
  /\ ok => Describable(enrich.chunks[b], enrich.region)
  /\ LET r == BatchPromise(enrich.version, enrich.baselineBandwidths, enrich.chunks[b], ok)
     IN enrich' = IF r.threw
          THEN [enrich EXCEPT !.pc = "threw", !.failed = @ \cup {b}]
          ELSE [enrich EXCEPT
                  !.pending = @ \ {b},
                  !.order = Append(@, b),
                  !.failed = IF ok THEN @ ELSE @ \cup {b},
                  !.baselineBandwidths = r.value]
  /\ UNCHANGED << bandwidthStore, hookVars, storage, cacheVars, clientVars, detailVars, viewVars >>

\* Promise.all resolves once every batch has settled; part_005 then stores
\* the map under BASELINE_BANDWIDTH_CACHE_KEY; the map is returned.
EnrichReturns(writeOk) ==
  /\ enrich.pc = "batches"
  /\ enrich.pending = {}
  /\ enrich.version = "part_004" => writeOk
  /\ bandwidthStore' =
       IF enrich.version = "part_005"
         THEN setCachedData_unversioned(bandwidthStore, enrich.baselineBandwidths, writeOk)
       ELSE bandwidthStore
  /\ enrich' = [enrich EXCEPT
       !.pc = "returned",
       !.calls = Append(@, EnrichResult(enrich, enrich.baselineBandwidths, FALSE))]
  /\ UNCHANGED << hookVars, storage, cacheVars, clientVars, detailVars, viewVars >>

InitEnrich ==
  /\ InitHook
  /\ storage = StorageOfKind("none")
  /\ cacheCall = NoCall
  /\ lastWrite = [k \in Keys |-> NoWrite]
  /\ client = IdleClient
  /\ details = IdleDetails
  /\ typeView = ClosedTypeView
  /\ compare = NoCompare
  /\ bandwidthStore = NoBandwidthEntry
  /\ \E version \in EnrichVersions : enrich = NoEnrichCall(version)

NextEnrich ==
  \/ \E types \in NodeTypeLists, reg \in Regions, readOk \in BOOLEAN :
       EnrichCall(types, reg, readOk)
  \/ \E flaky \in BOOLEAN : EnrichValidates(flaky)
  \/ \E b \in 1..3, ok \in BOOLEAN : BatchSettles(b, ok)
  \/ \E writeOk \in BOOLEAN : EnrichReturns(writeOk)

SpecEnrich == InitEnrich /\ [][NextEnrich]_vars

---------------------------------------------------------------------------
(* Properties of the capability enrichment (checked under SpecEnrich) *)

\* The entry a succeeded batch contributes for a name of its request.
HasEntry(version, name) == Ec2Catalog[name] # 0 \/ version = "part_004"
EntryOf(name) == IF Ec2Catalog[name] # 0 THEN Gbps(Ec2Catalog[name]) ELSE "Unknown"

\* The names requested by the batches of call c that succeeded.
SucceededNames(c) ==
  UNION { { c.chunks[b][i] : i \in DOMAIN c.chunks[b] } : b \in (DOMAIN c.chunks) \ c.failed }

\* C14: enrichment partial failure.  A failing batch request never makes
\* fetchBaselineBandwidth reject, and the map of a call that sent batches
\* holds the entries of every batch that succeeded and nothing else, so
\* nothing from a failed batch.
C14_PartialFailureKeepsSiblings ==
  /\ enrich.pc # "threw"
  /\ \A k \in DOMAIN enrich.calls :
       LET c == enrich.calls[k] IN
       ~c.fromCache =>
         /\ \A n \in SucceededNames(c) :
              HasEntry(enrich.version, n) =>
                n \in DOMAIN c.result /\ c.result[n] = EntryOf(n)
         /\ DOMAIN c.result \subseteq SucceededNames(c)

\* A call split its list into three batches, the second failed, and the
\* map returned holds entries of the first and of the third batch.
C14_Witness ==
  \E k \in DOMAIN enrich.calls :
    LET c == enrich.calls[k] IN
    /\ ~c.fromCache /\ Len(c.chunks) = 3 /\ c.failed = {2}
    /\ c.chunks[1][1] \in DOMAIN c.result
    /\ c.chunks[3][1] \in DOMAIN c.result
    /\ c.chunks[2][1] \notin DOMAIN c.result

\* The bare names of the types call c was asked about.
RequestedNames(c) == { BareType(enrich.version, c.nodeTypes[i]) : i \in DOMAIN c.nodeTypes }

\* C20 (as claimed): the bandwidth map is recomputed per (region, set of
\* instance types).  The map a call returns is the map for its own region
\* and types: it has entries only for the types the call named, each
\* offered in the call's region, also after a call for other types or
\* another region.
C20_MapIsForTheCallsRegionAndTypes ==
  \A k \in DOMAIN enrich.calls :
    LET c == enrich.calls[k] IN
    /\ DOMAIN c.result \subseteq RequestedNames(c)
    /\ \A n \in DOMAIN c.result : Ec2Offers(c.region, n)

---------------------------------------------------------------------------
(* The details view's bandwidth lookup: useBaselineBandwidth of            *)
(* src/src/shared/hooks.ts with the single-type fetchBaselineBandwidth of  *)
(* src/src/shared/awsClient.ts and of src/unnamed/part_006, next to the    *)
(* view's own useAWSInstanceData.                                          *)

MaxLookups == 2          \* runs of useBaselineBandwidth's effect

Lookups == 1..MaxLookups

LookupVersions == {"awsClient.ts", "part_006"}

\* A replace that knows the cache. prefix only.
stripPrefix_CacheOnly(instanceType) ==
  IF startsWith(instanceType, "cache.") THEN SubSeq(instanceType, 7, Len(instanceType))
  ELSE instanceType

\* instanceType.replace(/^(db\.|cache\.)/, ""): one prefix at the start.
stripPrefix(instanceType) ==
  IF startsWith(instanceType, "db.") THEN SubSeq(instanceType, 4, Len(instanceType))
  ELSE IF startsWith(instanceType, "cache.") THEN SubSeq(instanceType, 7, Len(instanceType))
  ELSE instanceType

\* The first argument the details view passes to useBaselineBandwidth:
\* instanceType.replace(/^(db\.|cache\.)/, "")
BandwidthArg(instanceType) == stripPrefix(instanceType)

\* The name sent in DescribeInstanceTypesCommand({ InstanceTypes: [...] }):
\* awsClient.ts sends instanceType as given, part_006 the cleanInstanceType.
LookupName(version, instanceType) ==
  IF version = "part_006" THEN stripPrefix(instanceType) ELSE instanceType

\* The try block of fetchBaselineBandwidth: send rejects, or the response's
\* first NetworkCard gives the bandwidth; without one the function falls
\* through to `return null`.
FetchBaselineBandwidthTry(version, instanceType, reg, ok) ==
  LET name == LookupName(version, instanceType) IN
  IF ~ok THEN Throw(null, "InvalidInstanceType", "describe request failed")
  ELSE IF Ec2Catalog[name] # 0 THEN Return(Gbps(Ec2Catalog[name]))
  ELSE Return(null)

\* fetchBaselineBandwidth without its try/catch.
fetchBaselineBandwidth_NoCatch(version, instanceType, reg, ok) ==
  FetchBaselineBandwidthTry(version, instanceType, reg, ok)

\* fetchBaselineBandwidth: catch (error) { console.error(...) } return null
fetchBaselineBandwidth(version, instanceType, reg, ok) ==
  LET r == FetchBaselineBandwidthTry(version, instanceType, reg, ok) IN
  IF r.threw THEN Return(null) ELSE r

\* The instance types a details view shows.
DetailTypes ==
  { TypeNames[1], TypeNames[2], "db." \o TypeNames[3], "cache." \o TypeNames[4] }

NoLookup == [pc |-> "idle", instanceType |-> "", region |-> "", ok |-> TRUE, result |-> null]

\* The details view is pushed: its hooks run their first effects, the
\* orchestrator's and useBaselineBandwidth's (setIsFetchingBandwidth(true),
\* fetchBaselineBandwidth(instanceType, region)).
DetailsOpen(version, instanceType) ==
  /\ ~details.open
  /\ MountEffect
  /\ details' = [open |-> TRUE, version |-> version, instanceType |-> instanceType,
                 nLookups |-> 1,
                 lookups |-> [l \in Lookups |->
                   IF l = 1 THEN [NoLookup EXCEPT !.pc = "pending",
                                                  !.instanceType = BandwidthArg(instanceType),
                                                  !.region = region]
                   ELSE NoLookup],
                 baselineBandwidth |-> null, isFetchingBandwidth |-> TRUE, caught |-> 0]
  /\ UNCHANGED << cacheVars, clientVars, enrichVars, viewVars >>

\* The user picks another instance type: the argument of
\* useBaselineBandwidth changes and its effect runs again (deps
\* [instanceType, region]); it has no cleanup.
DetailsPickType(instanceType) ==
  /\ details.open
  /\ details.nLookups < MaxLookups
  /\ BandwidthArg(instanceType) # BandwidthArg(details.instanceType)
  /\ details' = [details EXCEPT
       !.instanceType = instanceType,
       !.nLookups = @ + 1,
       !.lookups[details.nLookups + 1] =
          [NoLookup EXCEPT !.pc = "pending", !.instanceType = BandwidthArg(instanceType),
                           !.region = region],
       !.isFetchingBandwidth = TRUE]
  /\ UNCHANGED << hookVars, storage, cacheVars, clientVars, enrichVars, viewVars >>

\* fetchBaselineBandwidth of lookup l settles and fetchBandwidth runs to
\* its end: setBaselineBandwidth on a result, console.error on a throw,
\* setIsFetchingBandwidth(false) in finally.
LookupSettles(l, ok) ==
  /\ details.open
  /\ details.lookups[l].pc = "pending"
  /\ LET me == details.lookups[l]
         name == LookupName(details.version, me.instanceType)
         r == fetchBaselineBandwidth(details.version, me.instanceType, me.region, ok)
     IN /\ ok => Describable(<< name >>, me.region)
        /\ details' = [details EXCEPT
             !.lookups[l] = [me EXCEPT !.pc = "settled", !.ok = ok,
                                       !.result = IF r.threw THEN null ELSE r.value],
             !.baselineBandwidth = IF r.threw THEN @ ELSE r.value,
             !.caught = IF r.threw THEN @ + 1 ELSE @,
             !.isFetchingBandwidth = FALSE]
  /\ UNCHANGED << hookVars, storage, cacheVars, clientVars, enrichVars, viewVars >>

InitDetails ==
  /\ InitHook
  /\ \E kind \in SessionStoredKinds : storage = StorageOfKind(kind)
  /\ InitStandalone

NextDetails ==
  \/ \E version \in LookupVersions, instanceType \in DetailTypes :
       DetailsOpen(version, instanceType)
  \/ \E instanceType \in DetailTypes : DetailsPickType(instanceType)
  \/ \E l \in Lookups, ok \in BOOLEAN : LookupSettles(l, ok)
  \/ \E s \in Sessions, readOk \in BOOLEAN : CacheRead(s, readOk)
  \/ \E s \in Sessions : CatalogAnswers(s)
  \/ \E s \in Sessions, err \in TransportErrors : PageFails(s, err)
  \/ \E s \in Sessions, writeOk \in BOOLEAN : CacheWritten(s, writeOk)

SpecDetails == InitDetails /\ [][NextDetails]_vars

---------------------------------------------------------------------------
(* Properties of the bandwidth lookup (checked under SpecDetails) *)

\* A lookup settles in this step, its describe request having failed.
LookupFails(l) ==
  /\ details.open /\ details'.open
  /\ details.lookups[l].pc = "pending"
  /\ details'.lookups[l].pc = "settled"
  /\ ~details'.lookups[l].ok

\* C15: errors in enrichment never escalate.  fetchBaselineBandwidth never
\* throws to useBaselineBandwidth, a failing describe request yields null,
\* and the step in which a lookup fails leaves the orchestrator's error,
\* instanceData, sessions (their toasts) and the cache entries unchanged.
C15_EnrichmentNeverEscalates ==
  /\ [](details.open =>
          /\ details.caught = 0
          /\ \A l \in Lookups :
               (details.lookups[l].pc = "settled" /\ ~details.lookups[l].ok) =>
                 details.lookups[l].result = null)
  /\ [][\A l \in Lookups :
          LookupFails(l) =>
            /\ error' = error /\ instanceData' = instanceData
            /\ sess' = sess /\ storage' = storage /\ isLoading' = isLoading]_vars

\* The view's session is done showing a fetched map without an error, the
\* map is cached, and the bandwidth lookup has failed: no bandwidth shown.
C15_Witness ==
  /\ details.open /\ mounted
  /\ sess[1].pc = "Done" /\ sess[1].written /\ sess[1].toasts = 0
  /\ instanceData # EmptyMap /\ error = null
  /\ HoldsCurrent(storage[sess[1].cacheKeyWithRegion])
  /\ details.lookups[1].pc = "settled" /\ ~details.lookups[1].ok
  /\ details.baselineBandwidth = null /\ ~details.isFetchingBandwidth

---------------------------------------------------------------------------
(* Properties of concurrent sessions (checked under Spec) *)

\* Session s has made its cache write and LocalStorage performed it.
Wrote(s) == sess[s].pc = "Done" /\ sess[s].written

\* C16: the same-key race is last-write-wins on whole values.  The step in
\* which a session's set is performed replaces the entry of its key by the
\* envelope of the whole map its fetchInstanceData returned, whatever the
\* entry held; no other step changes an entry; so once two sessions of one
\* key have both written, the entry is the whole result of one of them.
C16_LastWriteWinsWhole ==
  /\ [][\A s \in Sessions :
          (sess[s].pc = "Populating" /\ Steps(s)) =>
            storage' = IF sess'[s].written
                         THEN [storage EXCEPT ![sess[s].cacheKeyWithRegion] =
                                 Stringify(CacheVersion, sess[s].fetch.instanceData)]
                       ELSE storage]_vars
  /\ [][storage' # storage =>
          \E s \in Sessions : sess[s].pc = "Populating" /\ Wrote(s)']_vars
  /\ [](\A s, t \in Sessions :
          (/\ s # t /\ Wrote(s) /\ Wrote(t)
           /\ sess[s].cacheKeyWithRegion = sess[t].cacheKeyWithRegion) =>
            storage[sess[s].cacheKeyWithRegion] \in
              { Stringify(CacheVersion, sess[s].fetch.instanceData),
                Stringify(CacheVersion, sess[t].fetch.instanceData) })

\* Two sessions of one key both missed, fetched different maps and wrote;
\* the entry is the map of the older session, whose set ran last.
C16_Witness ==
  /\ Wrote(1) /\ Wrote(2)
  /\ sess[1].cacheKeyWithRegion = sess[2].cacheKeyWithRegion
  /\ sess[1].fetch.instanceData # sess[2].fetch.instanceData
  /\ sess[1].fetch.pageCount = 2
  /\ storage[sess[1].cacheKeyWithRegion] = Stringify(CacheVersion, sess[1].fetch.instanceData)

\* The records of a map were returned for the filters of (sel, reg): each
\* carries the value of every filter's field.
FetchedWith(data, sel, reg) ==
  LET fl == FiltersOf(sel, reg) IN
  \A k \in DOMAIN data : \A i \in DOMAIN fl :
    /\ fl[i].Field \in DOMAIN data[k].attributes
    /\ data[k].attributes[fl[i].Field] = fl[i].Value

\* C17: sessions for different cache keys never conflict.  A session's key
\* is prefix_region of the (selection, region) it was started for, also
\* after the view's selection or region changed; a step of a session
\* changes no entry but the one under its key, a session served from the
\* cache shows the entry of its key, and the map a session writes was
\* fetched with the filters of its own (selection, region).
C17_SessionsKeepToTheirKey ==
  /\ [](\A s \in Sessions :
          sess[s].pc # "Idle" =>
            /\ sess[s].cacheKeyWithRegion =
                 SERVICE_CONFIGS[sess[s].selection].cacheKey \o "_" \o sess[s].region
            /\ sess[s].pc \in {"Populating", "Done"} =>
                 FetchedWith(sess[s].fetch.instanceData, sess[s].selection, sess[s].region)
            /\ Wrote(s) =>
                 FetchedWith(storage[sess[s].cacheKeyWithRegion].value.data,
                             SelectionOfKey(sess[s].cacheKeyWithRegion)[1],
                             SelectionOfKey(sess[s].cacheKeyWithRegion)[2]))
  /\ [][\A s \in Sessions :
          Steps(s) =>
            /\ \A k \in Keys : k # sess'[s].cacheKeyWithRegion => storage'[k] = storage[k]
            /\ (sess[s].pc = "CheckingCache" /\ sess'[s].pc = "ServingCached" /\ mounted) =>
                 instanceData' = storage[sess[s].cacheKeyWithRegion].value.data]_vars

\* Two sessions for different selections have both written: each key holds
\* the map of its own session, and the older session finished after the
\* view had moved to the other selection.
C17_Witness ==
  /\ nSessions = 2 /\ Wrote(1) /\ Wrote(2)
  /\ sess[1].selection # sess[2].selection
  /\ selection = sess[2].selection
  /\ storage[sess[1].cacheKeyWithRegion] = Stringify(CacheVersion, sess[1].fetch.instanceData)
  /\ storage[sess[2].cacheKeyWithRegion] = Stringify(CacheVersion, sess[2].fetch.instanceData)
  /\ sess[1].fetch.instanceData # sess[2].fetch.instanceData

\* The map in instanceData was delivered by a session of another
\* (selection, region) than the newest session's.
HoldsPreviousResult ==
  /\ nSessions >= 1 /\ instanceDataOf \notin {0, nSessions}
  /\ sess[instanceDataOf].cacheKeyWithRegion # sess[nSessions].cacheKeyWithRegion
  /\ instanceData # EmptyMap

\* C18 (as claimed): changing the selection or region invalidates the
\* in-memory result set.  The effect run that starts a session for another
\* (selection, region) leaves instanceData without the previous map, and
\* from then on, until the new session delivers its own data and also if
\* it fails or is cancelled, instanceData does not hold it.
C18_ChangeInvalidatesResult ==
  /\ [][nSessions' = nSessions + 1 => ~HoldsPreviousResult']_vars
  /\ []~HoldsPreviousResult

---------------------------------------------------------------------------
(* Properties of the Service Config Registry *)

\* The prefix convention of a selection's family.
FamilyPrefix(s) ==
  IF s = "EC2" THEN "" ELSE IF s = "Elasticache (Redis)" THEN "cache." ELSE "db."

\* C19 (as claimed): the registry is a total table over exactly nine
\* selections (EC2, Elasticache (Redis) and seven RDS engines); every
\* selection resolves to a defined service code among AmazonEC2, AmazonRDS
\* and AmazonElastiCache, a cache key prefix of its own, a non-empty filter
\* list and the prefix convention of its family, and every session of the
\* view runs under the entry of its selection.
C19_RegistryWellFormed ==
  /\ \A s \in Sessions :
       sess[s].pc # "Idle" =>
         /\ sess[s].selection \in DOMAIN SERVICE_CONFIGS
         /\ sess[s].cacheKeyWithRegion =
              SERVICE_CONFIGS[sess[s].selection].cacheKey \o "_" \o sess[s].region
  /\ DOMAIN SERVICE_CONFIGS =
       { "EC2", "Elasticache (Redis)", "RDS (Aurora MySQL)", "RDS (Aurora PostgreSQL)",
         "RDS (MySQL)", "RDS (PostgreSQL)", "RDS (MariaDB)", "RDS (Oracle)",
         "RDS (SQL Server)" }
  /\ Cardinality(DOMAIN SERVICE_CONFIGS) = 9
  /\ \A s \in DOMAIN SERVICE_CONFIGS :
       /\ SERVICE_CONFIGS[s].serviceCode \in {"AmazonEC2", "AmazonRDS", "AmazonElastiCache"}
       /\ SERVICE_CONFIGS[s].additionalFilters # << >>
       /\ getInstancePrefix(s) = FamilyPrefix(s)
       /\ \A t \in DOMAIN SERVICE_CONFIGS :
            t # s => SERVICE_CONFIGS[t].cacheKey # SERVICE_CONFIGS[s].cacheKey

---------------------------------------------------------------------------
(* Properties of the shared abortControllerRef (checked under Spec) *)

\* C21 (as claimed): each session owns its cancellation token.  The signal
\* passed to a session's fetchInstanceData call is the signal of the
\* AbortController that session created, and the cleanup of a session's
\* effect run aborts that session's controller whenever the session was
\* still in flight, also when an older session resumed or finished after a
\* newer one had started.
C21_SessionOwnsItsToken ==
  \A s \in Sessions :
    /\ sess[s].fetchCalls >= 1 => sess[s].signal = s
    /\ sess[s].cancelledIn # "" => s \in aborted

---------------------------------------------------------------------------
(* Properties of the reactive state (checked under Spec) *)

\* C22 (as claimed): isLoading tracks the newest session.  Whenever
\* isLoading is false the session started by the latest effect run has
\* settled; a stale session reaching its finally block does not set
\* isLoading to false while the newest session is still checking the cache
\* or fetching.
C22_LoadingTracksNewest ==
  (mounted /\ nSessions >= 1 /\ ~isLoading) => sess[nSessions].pc \in Settled

\* C23 (as claimed): error reflects the most recent session only.  After a
\* session has failed and a later session completes successfully, error is
\* null.
C23_ErrorOfLatestOnly ==
  [][ \A s \in Sessions :
        ( /\ mounted /\ s = nSessions
          /\ \E o \in 1..(s - 1) : sess[o].pc = "Failed"
          /\ sess[s].pc \in InFlight
          /\ sess'[s].pc \in {"ServingCached", "Done"} )
        => error' = null ]_vars

---------------------------------------------------------------------------
(* Properties of useBaselineBandwidth's races (checked under SpecDetails) *)

\* C24 (as claimed): useBaselineBandwidth shows the bandwidth of the latest
\* request.  When the instance type changes while a lookup is in flight,
\* then for every completion order, once all lookups have settled
\* baselineBandwidth is the result of the latest lookup, and
\* isFetchingBandwidth is false only when the latest lookup has settled.
C24_BandwidthOfLatestRequest ==
  details.open =>
    /\ (\A l \in 1..details.nLookups : details.lookups[l].pc = "settled") =>
          details.baselineBandwidth = details.lookups[details.nLookups].result
    /\ ~details.isFetchingBandwidth =>
          details.lookups[details.nLookups].pc = "settled"

---------------------------------------------------------------------------
(* Properties of the batches of one enrichment call (checked under         *)
(* SpecEnrich)                                                             *)

\* Calls j and k sent the same batches for the same region with the same
\* requests failing.
SameBatches(j, k) ==
  /\ ~enrich.calls[j].fromCache /\ ~enrich.calls[k].fromCache
  /\ enrich.calls[j].nodeTypes = enrich.calls[k].nodeTypes
  /\ enrich.calls[j].region = enrich.calls[k].region
  /\ enrich.calls[j].chunks = enrich.calls[k].chunks
  /\ enrich.calls[j].failed = enrich.calls[k].failed

\* C25: the merge of concurrently issued batches is order-independent.
\* Two calls that sent the same batches return the same map whatever the
\* order in which their batch requests completed, and a call returns only
\* after every one of its batches has settled.
C25_MergeOrderIndependent ==
  /\ \A j, k \in DOMAIN enrich.calls :
       SameBatches(j, k) => enrich.calls[j].result = enrich.calls[k].result
  /\ \A k \in DOMAIN enrich.calls :
       LET c == enrich.calls[k] IN
       ~c.fromCache =>
         /\ Len(c.order) = Len(c.chunks)
         /\ { c.order[i] : i \in DOMAIN c.order } = DOMAIN c.chunks

\* Two calls sent the same three batches, every request succeeded, the
\* batches completed in opposite orders and both calls returned the same
\* map with entries of all three batches.
C25_Witness ==
  /\ Len(enrich.calls) = 2
  /\ SameBatches(1, 2)
  /\ Len(enrich.calls[1].chunks) = 3 /\ enrich.calls[1].failed = {}
  /\ enrich.calls[1].order = << 1, 2, 3 >>
  /\ enrich.calls[2].order = << 3, 2, 1 >>
  /\ enrich.calls[1].result = enrich.calls[2].result
  /\ \A b \in 1..3 : enrich.calls[1].chunks[b][1] \in DOMAIN enrich.calls[1].result

\* The names requested by the batches.
ChunkNames(chunks) ==
  UNION { { chunks[b][i] : i \in DOMAIN chunks[b] } : b \in DOMAIN chunks }

\* C26 (as claimed): batching of the capability lookup.  The bare type list
\* is partitioned into batches of at most 100 names; every batch is
\* non-empty, the batches concatenated in order are the list (part_004) or
\* names of the list (part_005, after its validation pass), and each
\* distinct bare type name is requested in exactly one batch.
C26_BatchesPartitionDistinctNames ==
  enrich.pc = "batches" =>
    /\ \A b \in DOMAIN enrich.chunks :
         Len(enrich.chunks[b]) >= 1 /\ Len(enrich.chunks[b]) <= BatchSize
    /\ enrich.version = "part_004" => Flatten(enrich.chunks) = enrich.bare
    /\ ChunkNames(enrich.chunks) \subseteq { enrich.bare[i] : i \in DOMAIN enrich.bare }
    /\ Cardinality(ChunkNames(enrich.chunks)) = Len(Flatten(enrich.chunks))

---------------------------------------------------------------------------
(* The details view's prefix convention: InstanceDetailsComponent of       *)
(* src/src/search-instance-price.tsx, its selectedService and instanceType *)
(* state, the effect that re-prefixes instanceType when the service        *)
(* changes, and the name its useBaselineBandwidth effect looks up.  (The   *)
(* orchestrator's effect of the same renders is ChangeDeps.)               *)

MaxServiceChanges == 3   \* changes of the service dropdown in one details view

\* Bare compute-family type names and the prefixes a type may start with.
BareNames == { TypeNames[1], TypeNames[2], TypeNames[3] }
StartPrefixes == {"", "db.", "cache."}

\* instanceType.replace(/^(db\.|cache\.)+/, ""): every prefix at the start.
RECURSIVE baseInstanceType(_)
baseInstanceType(instanceType) ==
  IF startsWith(instanceType, "db.")
    THEN baseInstanceType(SubSeq(instanceType, 4, Len(instanceType)))
  ELSE IF startsWith(instanceType, "cache.")
    THEN baseInstanceType(SubSeq(instanceType, 7, Len(instanceType)))
  ELSE instanceType

\* setInstanceType(`${newPrefix}${baseInstanceType}`)
Reprefixed(service, instanceType) ==
  getInstancePrefix(service) \o baseInstanceType(instanceType)

\* A render after instanceType changed: the effect of useBaselineBandwidth
\* runs again when its argument differs from the one of the render before,
\* and sends the name of that argument.
LookedUp(version, sent, oldArg, instanceType) ==
  IF BandwidthArg(instanceType) # oldArg
    THEN Append(sent, LookupName(version, BandwidthArg(instanceType)))
  ELSE sent

\* The view is pushed with props (details.instanceType, service).  The
\* first render's effects run with instanceType = details.instanceType: the
\* lookup of its argument and the prefix effect; then the render with the
\* re-prefixed instanceType.
TypeViewOpen(version, service, prefix, bare) ==
  /\ ~typeView.open
  /\ LET start == prefix \o bare
         sent == << LookupName(version, BandwidthArg(start)) >>
         instanceType == Reprefixed(service, start)
     IN typeView' =
          [open |-> TRUE, version |-> version, selectedService |-> service,
           instanceType |-> instanceType,
           sent |-> LookedUp(version, sent, BandwidthArg(start), instanceType),
           start |-> start, bare |-> bare, changes |-> 0]
  /\ UNCHANGED << hookVars, storage, cacheVars, clientVars, enrichVars, detailVars, compare >>

\* The service dropdown: setSelectedService(newValue); the prefix effect
\* (deps [selectedService]) runs with the instanceType of that render, then
\* the render with the re-prefixed instanceType.
TypeViewPickService(service) ==
  /\ typeView.open
  /\ typeView.changes < MaxServiceChanges
  /\ service # typeView.selectedService
  /\ LET instanceType == Reprefixed(service, typeView.instanceType)
     IN typeView' = [typeView EXCEPT
          !.selectedService = service,
          !.instanceType = instanceType,
          !.sent = LookedUp(typeView.version, @, BandwidthArg(typeView.instanceType),
                            instanceType),
          !.changes = @ + 1]
  /\ UNCHANGED << hookVars, storage, cacheVars, clientVars, enrichVars, detailVars, compare >>

InitTypeView ==
  /\ InitHook
  /\ storage = StorageOfKind("none")
  /\ InitStandalone

NextTypeView ==
  \/ \E version \in LookupVersions, service \in DOMAIN SERVICE_CONFIGS,
        prefix \in StartPrefixes, bare \in BareNames :
       TypeViewOpen(version, service, prefix, bare)
  \/ \E service \in DOMAIN SERVICE_CONFIGS : TypeViewPickService(service)

SpecTypeView == InitTypeView /\ [][NextTypeView]_vars

---------------------------------------------------------------------------
(* Properties of the prefix convention (checked under SpecTypeView) *)

---------------------------------------------------------------------------
(* Properties of the progress reports (checked under SpecClient) *)

\* C28 (as claimed): progress is consistent with the result.  After the
\* k-th page fetchInstanceData reports current = k with an unknown total,
\* and the cumulative record count it reports is the number of entries of
\* the result map built so far, a record whose key is already present not
\* being counted a second time.
C28_ProgressMatchesResult ==
  (client.pc \in {"running", "returned"}) =>
    /\ Len(client.reports) = Len(client.pages)
    /\ \A k \in DOMAIN client.reports :
         client.reports[k].current = k /\ client.reports[k].total = null
    /\ client.reports # << >> =>
         client.reports[Len(client.reports)].instanceCount =
           Cardinality(DOMAIN client.f.instanceData)

---------------------------------------------------------------------------
(* The Command view's comparison: compareSet, showCompare, toggleCompare,  *)
(* Compare Selected and Close Comparison of                                *)
(* src/src/search-instance-price.tsx, next to the view's own               *)
(* useAWSInstanceData (dependencies [selectedService]).                    *)

\* The price list of a selection in a region as the comparison sees it:
\* one page with a priced record of each of two instance types.
ComparePage(sel, reg) ==
  LET fl == FiltersOf(sel, reg)
      large == getInstancePrefix(sel) \o "r6g.large"
      xlarge == getInstancePrefix(sel) \o "r6g.xlarge"
  IN << PriceItem(TRUE, Attributes(fl, large, "InstanceUsage"), TRUE, << << "0.2600000000" >> >>),
        PriceItem(TRUE, Attributes(fl, xlarge, "InstanceUsage"), TRUE, << << "0.5200000000" >> >>) >>

\* The map an earlier run of the command cached for a selection and region.
CompareData(sel, reg) == ProcessItems(NewFetch, ComparePage(sel, reg)).value.instanceData

\* LocalStorage when the command opens: empty, or holding the version-1
\* envelopes an earlier run wrote.
CompareStorage(cached) ==
  [k \in Keys |->
     IF cached THEN Stringify(CacheVersion, CompareData(SelectionOfKey(k)[1], SelectionOfKey(k)[2]))
     ELSE NoEntry]

\* Command renders the list (with its service dropdown and items): not the
\* comparison, not the error view, not the "No instances found" view.
ListShown ==
  /\ mounted /\ ~compare.showCompare
  /\ error = null
  /\ ~(~isLoading /\ instanceData = EmptyMap)

\* compareSet.map(key => instanceData[key]).filter(item => item !== undefined)
Compared ==
  LET Present(key) == key \in DOMAIN instanceData
  IN SelectSeq(compare.compareSet, Present)

\* The comparison branch renders the table: if (compared.length < 2) return null
TableShown == mounted /\ compare.showCompare /\ Len(Compared) >= 2

\* toggleCompare(key), the action of a list item:
\* prev.includes(key) ? prev.filter(k => k !== key) : [...prev, key]
ToggleCompare(key) ==
  /\ ListShown
  /\ key \in DOMAIN instanceData
  /\ LET Other(k) == k # key
         prev == compare.compareSet
     IN compare' = [compare EXCEPT !.compareSet =
                      IF \E i \in DOMAIN prev : prev[i] = key
                        THEN SelectSeq(prev, Other) ELSE Append(prev, key)]
  /\ UNCHANGED << hookVars, storage, cacheVars, clientVars, enrichVars, detailVars, typeView >>

\* The "Compare Selected" action, rendered when compareSet.length >= 2.
CompareSelected ==
  /\ ListShown
  /\ Len(compare.compareSet) >= 2
  /\ compare' = [compare EXCEPT !.showCompare = TRUE]
  /\ UNCHANGED << hookVars, storage, cacheVars, clientVars, enrichVars, detailVars, typeView >>

\* The "Close Comparison" action of the table.
CloseComparison ==
  /\ TableShown
  /\ compare' = [compare EXCEPT !.showCompare = FALSE]
  /\ UNCHANGED << hookVars, storage, cacheVars, clientVars, enrichVars, detailVars, typeView >>

\* The service dropdown of the list: setSelectedService(newValue), and the
\* orchestrator's effect runs again.
CommandPickService(sel) ==
  /\ ListShown
  /\ sel # selection
  /\ ChangeDeps(sel, region, refreshKey)

\* The catalog answers a session's request with the page of its selection.
CompareCatalogAnswers(s) ==
  /\ sess[s].pc = "Fetching"
  /\ PageArrives(s, ComparePage(sess[s].selection, sess[s].region), FALSE)

InitCompare ==
  /\ InitHook
  /\ \E cached \in BOOLEAN : storage = CompareStorage(cached)
  /\ InitStandalone

NextCompare ==
  \/ Mount
  \/ \E sel \in ViewSelections : CommandPickService(sel)
  \/ \E s \in Sessions, readOk \in BOOLEAN : CacheRead(s, readOk)
  \/ \E s \in Sessions : CompareCatalogAnswers(s)
  \/ \E s \in Sessions, err \in TransportErrors : PageFails(s, err)
  \/ \E s \in Sessions, writeOk \in BOOLEAN : CacheWritten(s, writeOk)
  \/ \E sel \in ViewSelections, reg \in Regions :
       \E key \in DOMAIN CompareData(sel, reg) : ToggleCompare(key)
  \/ CompareSelected
  \/ CloseComparison

SpecCompare == InitCompare /\ [][NextCompare]_vars

---------------------------------------------------------------------------
(* Properties of the comparison (checked under SpecCompare) *)

\* C29 (as claimed): whenever the comparison is open it renders a table of
\* at least two instances.  After any sequence of toggleCompare, service
\* changes and Compare Selected actions, every key of the compare set
\* refers to an entry of the current instanceData and the view is never
\* blank.
C29_ComparisonNeverBlank ==
  (mounted /\ compare.showCompare) =>
    /\ \A i \in DOMAIN compare.compareSet :
         compare.compareSet[i] \in DOMAIN instanceData
    /\ TableShown

---------------------------------------------------------------------------
(* Properties of Refresh Pricing (checked under Spec) *)

\* Session s was started by Refresh Pricing: the effect ran again for the
\* selection and region of the session before it.
StartedByRefresh(s) ==
  /\ s >= 2 /\ sess[s].pc # "Idle"
  /\ sess[s].selection = sess[s - 1].selection
  /\ sess[s].region = sess[s - 1].region

\* C30: refresh is manual and cache-first.  Incrementing refreshKey starts
\* a new session at the cache check for the same key and touches neither
\* the cache nor the catalog; when the cache holds a version-1 entry for
\* that key and the read is performed, the refresh session is served from
\* the cache with no fetchInstanceData call and no cache write; and no
\* step deletes an entry: an entry only changes by being overwritten with
\* a version-1 envelope.
C30_RefreshIsCacheFirst ==
  /\ [][refreshKey' # refreshKey =>
          /\ refreshKey' = refreshKey + 1
          /\ nSessions' = nSessions + 1
          /\ sess'[nSessions'].pc = "CheckingCache"
          /\ sess'[nSessions'].cacheKeyWithRegion = sess[nSessions].cacheKeyWithRegion
          /\ sess'[nSessions'].fetchCalls = 0 /\ sess'[nSessions'].setCalls = 0
          /\ storage' = storage]_vars
  /\ [][\A s \in Sessions :
          ( /\ StartedByRefresh(s)
            /\ sess[s].pc = "CheckingCache" /\ Steps(s)
            /\ ~sess'[s].readFailed
            /\ HoldsCurrent(storage[sess[s].cacheKeyWithRegion]) )
          => /\ sess'[s].pc = "ServingCached"
             /\ sess'[s].fetchCalls = 0 /\ sess'[s].setCalls = 0
             /\ storage' = storage]_vars
  /\ [](\A s \in Sessions :
          (StartedByRefresh(s) /\ sess[s].pc = "ServingCached") =>
            sess[s].fetchCalls = 0 /\ sess[s].setCalls = 0 /\ ~sess[s].written)
  /\ [][\A k \in Keys :
          /\ storage[k] # NoEntry => storage'[k] # NoEntry
          /\ storage'[k] # storage[k] => HoldsCurrent(storage'[k])]_vars

\* The first session missed, fetched and populated the cache; Refresh
\* Pricing started a second session for the same key, which was served the
\* stored map from the cache without a catalog call.
C30_Witness ==
  /\ mounted /\ nSessions = 2 /\ refreshKey = 1
  /\ sess[1].pc = "Done" /\ sess[1].written /\ sess[1].fetchCalls = 1
  /\ StartedByRefresh(2)
  /\ sess[2].pc = "ServingCached" /\ sess[2].fetchCalls = 0 /\ sess[2].setCalls = 0
  /\ instanceDataOf = 2
  /\ storage[sess[2].cacheKeyWithRegion] =
       Stringify(CacheVersion, sess[1].fetch.instanceData)
  /\ instanceData = sess[1].fetch.instanceData

====
